---- MODULE Spec2Model ----
(***************************************************************************)
(* Model of the Hue binary-sensor platform's coalesced-update coordinator  *)
(* (homeassistant/components/binary_sensor/hue.py): the closure            *)
(* request_update / update_bridge created by async_setup_entry, and        *)
(* async_update_items, running on one asyncio event loop.                  *)
(*                                                                         *)
(* The event loop is modelled by its FIFO queue of ready handles           *)
(* (`ready`): every action that runs program code executes the handle at   *)
(* the head of the queue up to the next suspension point of that task.     *)
(* The environment appends handles: an entity poll (Poll) and the answer   *)
(* of the bridge to api.update() (ApiRespond).                             *)
(*                                                                         *)
(* The second part models the cloud component (components/cloud): the      *)
(* Cloud object's connect / logout / stop handling and the routing of      *)
(* incoming IoT messages (iot.py).  It has its own specification,          *)
(* CloudSpec; each specification leaves the other part's variables alone.  *)
(***************************************************************************)
EXTENDS Integers, Sequences, FiniteSets, TLC

\* ---- bounds ----
NumIds == 2          \* device identifiers the bridge can list
MaxFetch == 3        \* fetches per behaviour, the initial one included
MaxClients == 3      \* MQTT clients Cloud.connect creates per behaviour
MaxMsgs == 2         \* IoT messages received per behaviour

Ids == 1..NumIds
Fetches == 1..MaxFetch
None == 0            \* `progress = None`

\* ---- sensor types (aiohue.sensors type tags) ----
ALL_BINARY_SENSORS ==
    {"CLIPGenericFlag", "CLIPOpenClose", "CLIPPresence", "Daylight", "ZLLPresence"}
HUE_BINARY_SENSORS == {"Daylight", "ZLLPresence"}
allow_clip_sensors == TRUE

\* What bridge.api.sensors can hold for one identifier after an update: not
\* listed, listed with a binary-sensor type, listed with another type.  The
\* code reads it only in the step that follows api.update() (lines 156-157),
\* so a snapshot is an input of that step.
ItemKinds == {"absent", "ZLLPresence", "ZLLTemperature"}
Snapshots == [Ids -> ItemKinds]

\* How `await api.update()` can end.
Outcomes == {"ok", "timeout", "aiohue", "other"}

\* ---- cloud component: values ----
Msgs == 1..MaxMsgs
NoClient == 0        \* `self.client = None`
NoValue == "None"    \* `self.email = None`, `self.thing_name = None`
Emails == {"user@example.com"}
Things == {"thing-1"}

\* The exceptions Cloud.connect names in its except clause.
ConnectErrors == {"OSError", "operationError", "operationTimeoutException"}

\* How one Cloud.connect() can go: both steps succeed, client.connect()
\* returns False, or client.connect() / client.subscribe() raises.
ConnectOutcomes ==
    {[at |-> "none", exc |-> "none"], [at |-> "connect", exc |-> "false"]}
    \cup [at : {"connect", "subscribe"}, exc : ConnectErrors]

\* Topics a message can arrive on, as their '/'-separated parts.
Topics ==
    {<<t, "i", "alexa">> : t \in Things}
    \cup {<<t, "i", "unknown">> : t \in Things}
    \cup {<<t, "i", "alexa", "extra">> : t \in Things}

VARIABLES
    current,          \* cur_sensors: identifiers that have an entity
    available,        \* bridge.available
    progress,         \* the in-flight marker: None or the task of a fetch
    sensor_progress,  \* the waiter set
    ready,            \* the event loop's queue of ready handles
    nfetch,           \* update_bridge() invocations so far
    fstate,           \* where each fetch is
    outcome,          \* how api.update() ended for each fetch
    itemsResult,      \* how the async_update_items task of a fetch ended
    taskResult,       \* what the update_bridge() task of a fetch resolved to
    callbacks,        \* tasks suspended on each fetch's task, in await order
    apiCalls,         \* api.update() invocations per fetch
    pc,               \* where each entity's request_update call is
    awaiting,         \* the fetch whose task the call awaited
    seen,             \* the unresolved fetch in flight when the call arrived
    result,           \* what request_update returned to the entity
    notified,         \* async_schedule_update_ha_state calls per entity made
                      \* by the latest run of async_update_items
    added,            \* identifiers that run handed to async_add_devices
    created,          \* create_binary_sensor invocations per identifier
    errorLogs,        \* _LOGGER.error('Unable to reach bridge') count
    infoLogs,         \* _LOGGER.info('Reconnected to bridge') count
    \* ---- cloud component ----
    phase,            \* "new", "running" (initialize() done) or "stopped"
    client,           \* Cloud.client: NoClient or the MQTT client in use
    email,            \* Cloud.email
    thing_name,       \* Cloud.thing_name
    nclients,         \* clients made by _client_factory so far
    open,             \* clients that hold an open broker connection
    subscribed,       \* clients whose subscribe() succeeded
    lastConnect,      \* how the latest Cloud.connect() went
    connectReturn,    \* what the latest Cloud.connect() gave its caller
    nmsgs,            \* IoT messages received so far
    mname,            \* handler name of each message
    mstate,           \* where the handling of each message is
    jobs,             \* hass.add_job queue of async_handle_message calls
    handlerRuns,      \* runs of async_handle_alexa per message
    published,        \* topics client.publish() was called with
    warnings          \* 'Unable to handle message' warnings

hueVars == <<current, available, progress, sensor_progress, ready, nfetch,
          fstate, outcome, itemsResult, taskResult, callbacks, apiCalls, pc, awaiting,
          seen, result, notified, added, created, errorLogs, infoLogs>>

cloudVars == <<phase, client, email, thing_name, nclients, open, subscribed,
               lastConnect, connectReturn, nmsgs, mname, mstate, jobs,
               handlerRuns, published, warnings>>

vars == <<hueVars, cloudVars>>

coordVars == <<progress, sensor_progress>>
callerVars == <<pc, awaiting, seen, result>>
itemVars == <<current, available, notified, added, created, errorLogs,
              infoLogs>>

\* a ready handle of the event loop: which step of which task
Handle(k, a) == [kind |-> k, arg |-> a]
Head1(k, a) == ready # <<>> /\ Head(ready) = Handle(k, a)

\* ---- pure parts of the code ----

\* hue.py 151-154
allowed_binary_sensor_types ==
    IF allow_clip_sensors THEN ALL_BINARY_SENSORS ELSE HUE_BINARY_SENSORS

\* hue.py 132: the except clause catches these two
Caught(o) == o \in {"timeout", "aiohue"}

\* hue.py 133: `if not bridge.available: return`
AlreadyUnavailableNever(av) == FALSE
AlreadyUnavailable(av) == ~av

\* hue.py 139-141: the entities notified on the first failure
FailureNotifyWaiting(cur, waiting) == {id \in cur : id \in waiting}
FailureNotify(cur, waiting) == {id \in cur : id \notin waiting}

\* hue.py 129-132: how the coroutine leaves the try block
ItemsResult(o) == IF o = "ok" \/ Caught(o) THEN "returned" ELSE "raised"

\* hue.py 156-163: identifiers that get a new entity
NewSensorsAgain(snap, cur) ==
    {id \in Ids : snap[id] \in allowed_binary_sensor_types}
NewSensors(snap, cur) ==
    {id \in Ids : snap[id] \in allowed_binary_sensor_types /\ id \notin cur}

\* hue.py 156-167: the existing entities notified on success
SuccessNotifyAll(snap, cur, waiting) ==
    {id \in Ids : snap[id] \in allowed_binary_sensor_types /\ id \in cur}
SuccessNotify(snap, cur, waiting) ==
    {id \in Ids : /\ snap[id] \in allowed_binary_sensor_types
                  /\ id \in cur
                  /\ id \notin waiting}

\* hue.py 91-92: `progress_set.add(object_id)`
AddWaiterForgotten(s, id) == s
AddWaiter(s, id) == s \cup {id}

\* hue.py 94: `if progress is not None`
InFlightNever(p) == FALSE
InFlight(p) == p # None

\* hue.py 97: `progress = asyncio.ensure_future(update_bridge())`
MarkInFlightForgotten(f) == None
MarkInFlight(f) == f

\* hue.py 95/98: `await progress` registers the caller's wake-up on the task
Register(cbs, id) == Append(cbs, id)

\* hue.py 99-100: what the initiator does to the marker and the waiter set
\* once its await returns
ClearedProgressKept(p) == p
ClearedProgress(p) == None
ClearedWaitersKept(s) == s
ClearedWaiters(s) == {}

\* hue.py 114: `await asyncio.wait(tasks)` returns (done, pending) whatever
\* the tasks ended with, and update_bridge returns None
UpdateBridgeResult(ended) == "None"

\* hue.py 134/143/170: async_update_items ends after one api.update(); its
\* task completes and asyncio.wait's callback is queued
AfterItemsRetry(f, o) ==
    IF Caught(o) THEN Handle("items", f) ELSE Handle("on_completion", f)
AfterItems(f, o) == Handle("on_completion", f)

\* ---- initial state: async_setup_entry has run to its first suspension ----
Init ==
    /\ current = {}
    /\ available \in BOOLEAN
    /\ progress = None
    /\ sensor_progress = {}
    /\ ready = <<Handle("items", 1)>>
    /\ nfetch = 1
    /\ fstate = [f \in Fetches |-> IF f = 1 THEN "items" ELSE "none"]
    /\ outcome = [f \in Fetches |-> "none"]
    /\ itemsResult = [f \in Fetches |-> "pending"]
    /\ taskResult = [f \in Fetches |-> "pending"]
    /\ callbacks = [f \in Fetches |-> <<>>]
    /\ apiCalls = [f \in Fetches |-> 0]
    /\ pc = [i \in Ids |-> "idle"]
    /\ awaiting = [i \in Ids |-> None]
    /\ seen = [i \in Ids |-> None]
    /\ result = [i \in Ids |-> "none"]
    /\ notified = [i \in Ids |-> 0]
    /\ added = {}
    /\ created = [i \in Ids |-> 0]
    /\ errorLogs = 0
    /\ infoLogs = 0
    \* Cloud.__init__ (cloud/__init__.py 59-66)
    /\ phase = "new"
    /\ client = NoClient
    /\ email = NoValue
    /\ thing_name = NoValue
    /\ nclients = 0
    /\ open = {}
    /\ subscribed = {}
    /\ lastConnect = [at |-> "never", exc |-> "none"]
    /\ connectReturn = "none"
    /\ nmsgs = 0
    /\ mname = [m \in Msgs |-> <<>>]
    /\ mstate = [m \in Msgs |-> "none"]
    /\ jobs = <<>>
    /\ handlerRuns = [m \in Msgs |-> 0]
    /\ published = <<>>
    /\ warnings = 0

\* ---- environment ----

\* Home Assistant schedules an entity's update, which calls
\* request_update(own id).  Only entities hold the closure (hue.py 160-161).
Started == {i \in Ids : pc[i] = "start"}

Poll(id) ==
    /\ id \in current
    /\ pc[id] \in {"idle", "returned"}
    /\ nfetch + Cardinality(Started) < MaxFetch
    /\ pc' = [pc EXCEPT ![id] = "start"]
    /\ awaiting' = [awaiting EXCEPT ![id] = None]
    /\ seen' = [seen EXCEPT ![id] = None]
    /\ result' = [result EXCEPT ![id] = "none"]
    /\ ready' = Append(ready, Handle("call", id))
    /\ UNCHANGED <<coordVars, itemVars, nfetch, fstate, outcome, itemsResult,
                   taskResult, callbacks, apiCalls>>
    /\ UNCHANGED cloudVars

\* The bridge answers api.update(), the 4 s timeout fires, or the call
\* raises: the task of async_update_items becomes ready again.
ApiRespond(f, o) ==
    /\ fstate[f] = "fetching"
    /\ fstate' = [fstate EXCEPT ![f] = "answered"]
    /\ outcome' = [outcome EXCEPT ![f] = o]
    /\ ready' = Append(ready, Handle("items_resume", f))
    /\ UNCHANGED <<coordVars, callerVars, itemVars, nfetch, itemsResult,
                   taskResult, callbacks, apiCalls>>
    /\ UNCHANGED cloudVars

\* ---- request_update ----

\* The fetches whose api.update() has not ended yet.
Unresolved ==
    {f \in Fetches : fstate[f] \in {"task", "items", "fetching", "answered"}}

\* First step of a call: lines 89-98 up to the await.
RequestUpdate(id) ==
    /\ Head1("call", id)
    /\ sensor_progress' = AddWaiter(sensor_progress, id)
    /\ seen' = [seen EXCEPT ![id] =
                  IF Unresolved = {} THEN None
                  ELSE CHOOSE f \in Unresolved : \A g \in Unresolved : g <= f]
    /\ IF InFlight(progress)
       THEN /\ awaiting' = [awaiting EXCEPT ![id] = progress]
            /\ progress' = progress
            /\ UNCHANGED <<nfetch, fstate>>
            /\ IF fstate[progress] = "done"
               THEN \* awaiting a finished task does not suspend
                    /\ pc' = [pc EXCEPT ![id] = "returned"]
                    /\ result' = [result EXCEPT ![id] = taskResult[progress]]
                    /\ callbacks' = callbacks
               ELSE /\ pc' = [pc EXCEPT ![id] = "joined"]
                    /\ callbacks' = [callbacks EXCEPT
                                       ![progress] = Register(@, id)]
                    /\ result' = result
            /\ ready' = Tail(ready)
       ELSE /\ nfetch' = nfetch + 1
            /\ progress' = MarkInFlight(nfetch + 1)
            /\ fstate' = [fstate EXCEPT ![nfetch + 1] = "task"]
            /\ awaiting' = [awaiting EXCEPT ![id] = nfetch + 1]
            /\ pc' = [pc EXCEPT ![id] = "initiated"]
            /\ callbacks' = [callbacks EXCEPT ![nfetch + 1] = Register(@, id)]
            /\ result' = result
            /\ ready' = Append(Tail(ready), Handle("task", nfetch + 1))
    /\ UNCHANGED <<itemVars, outcome, itemsResult, taskResult, apiCalls>>
    /\ UNCHANGED cloudVars

\* The awaited task is done and the caller's wake-up runs: line 95 for a
\* joiner, lines 98-101 for the initiator.
RequestUpdateResume(id) ==
    /\ Head1("wake", id)
    /\ ready' = Tail(ready)
    /\ result' = [result EXCEPT ![id] = taskResult[awaiting[id]]]
    /\ IF pc[id] = "initiated"
       THEN /\ progress' = ClearedProgress(progress)
            /\ sensor_progress' = ClearedWaiters(sensor_progress)
       ELSE UNCHANGED coordVars
    /\ pc' = [pc EXCEPT ![id] = "returned"]
    /\ UNCHANGED <<itemVars, awaiting, seen, nfetch, fstate, outcome,
                   itemsResult, taskResult, callbacks, apiCalls>>
    /\ UNCHANGED cloudVars

\* ---- update_bridge ----

\* First step of the task made by ensure_future (lines 108-114): wraps
\* async_update_items in a task and waits for it.
UpdateBridge(f) ==
    /\ Head1("task", f)
    /\ fstate' = [fstate EXCEPT ![f] = "items"]
    /\ ready' = Append(Tail(ready), Handle("items", f))
    /\ UNCHANGED <<coordVars, callerVars, itemVars, nfetch, outcome,
                   itemsResult, taskResult, callbacks, apiCalls>>
    /\ UNCHANGED cloudVars

\* asyncio.wait's completion callback releases update_bridge (or, for the
\* initial fetch, async_setup_entry at line 116).
OnCompletion(f) ==
    /\ Head1("on_completion", f)
    /\ fstate' = [fstate EXCEPT ![f] = "completing"]
    /\ ready' = Append(Tail(ready), Handle("bridge_resume", f))
    /\ UNCHANGED <<coordVars, callerVars, itemVars, nfetch, outcome,
                   itemsResult, taskResult, callbacks, apiCalls>>
    /\ UNCHANGED cloudVars

WakeupsFirstOnly(cbs) ==
    IF cbs = <<>> THEN <<>> ELSE <<Handle("wake", Head(cbs))>>
RECURSIVE Wakeups(_)
Wakeups(cbs) ==
    IF cbs = <<>> THEN <<>>
    ELSE <<Handle("wake", Head(cbs))>> \o Wakeups(Tail(cbs))

\* update_bridge returns: its task is done and the wake-ups of the callers
\* suspended on it are queued in the order they awaited.
UpdateBridgeResume(f) ==
    /\ Head1("bridge_resume", f)
    /\ fstate' = [fstate EXCEPT ![f] = "done"]
    /\ taskResult' = [taskResult EXCEPT
                        ![f] = UpdateBridgeResult(itemsResult[f])]
    /\ ready' = Tail(ready) \o Wakeups(callbacks[f])
    /\ callbacks' = [callbacks EXCEPT ![f] = <<>>]
    /\ UNCHANGED <<coordVars, callerVars, itemVars, nfetch, outcome,
                   itemsResult, apiCalls>>
    /\ UNCHANGED cloudVars

\* ---- async_update_items ----

\* First step (lines 123-131): api.update() is sent to the bridge.
AsyncUpdateItems(f) ==
    /\ Head1("items", f)
    /\ fstate' = [fstate EXCEPT ![f] = "fetching"]
    /\ apiCalls' = [apiCalls EXCEPT ![f] = @ + 1]
    /\ ready' = Tail(ready)
    /\ UNCHANGED <<coordVars, callerVars, itemVars, nfetch, outcome,
                   itemsResult, taskResult, callbacks>>
    /\ UNCHANGED cloudVars

\* one async_schedule_update_ha_state call for each entity of S
Scheduled(S) == [i \in Ids |-> IF i \in S THEN 1 ELSE 0]

\* lines 132-143
ItemsFailed(f) ==
    /\ Caught(outcome[f])
    /\ IF AlreadyUnavailable(available)
       THEN /\ UNCHANGED <<available, errorLogs>>
            /\ notified' = Scheduled({})
       ELSE /\ errorLogs' = errorLogs + 1
            /\ available' = FALSE
            /\ notified' = Scheduled(FailureNotify(current, sensor_progress))
    /\ added' = {}
    /\ UNCHANGED <<current, created, infoLogs>>

\* an exception the except clause does not name leaves the coroutine
ItemsRaised(f) ==
    /\ ItemsResult(outcome[f]) = "raised"
    /\ notified' = Scheduled({})
    /\ added' = {}
    /\ UNCHANGED <<available, errorLogs, current, created, infoLogs>>

\* lines 145-170
ItemsSucceeded(f, snap) ==
    /\ outcome[f] = "ok"
    /\ IF ~available
       THEN /\ infoLogs' = infoLogs + 1
            /\ available' = TRUE
       ELSE UNCHANGED <<infoLogs, available>>
    /\ current' = current \cup NewSensors(snap, current)
    /\ added' = NewSensors(snap, current)
    /\ created' = [i \in Ids |->
                     IF i \in NewSensors(snap, current) THEN created[i] + 1
                     ELSE created[i]]
    /\ notified' = Scheduled(SuccessNotify(snap, current, sensor_progress))
    /\ UNCHANGED errorLogs

\* The rest of async_update_items once api.update() has ended; after a
\* successful update `api` holds the snapshot snap.
AsyncUpdateItemsResume(f, snap) ==
    /\ Head1("items_resume", f)
    /\ \/ ItemsFailed(f)
       \/ ItemsRaised(f)
       \/ ItemsSucceeded(f, snap)
    /\ fstate' = [fstate EXCEPT ![f] = "resolved"]
    /\ itemsResult' = [itemsResult EXCEPT ![f] = ItemsResult(outcome[f])]
    /\ ready' = Append(Tail(ready), AfterItems(f, outcome[f]))
    /\ UNCHANGED <<coordVars, callerVars, nfetch, outcome, taskResult,
                   callbacks, apiCalls>>
    /\ UNCHANGED cloudVars

Next ==
    \/ \E id \in Ids : Poll(id)
    \/ \E f \in Fetches, o \in Outcomes : ApiRespond(f, o)
    \/ \E id \in Ids : RequestUpdate(id)
    \/ \E id \in Ids : RequestUpdateResume(id)
    \/ \E f \in Fetches : UpdateBridge(f)
    \/ \E f \in Fetches : OnCompletion(f)
    \/ \E f \in Fetches : UpdateBridgeResume(f)
    \/ \E f \in Fetches : AsyncUpdateItems(f)
    \/ \E f \in Fetches, snap \in Snapshots : AsyncUpdateItemsResume(f, snap)

Spec == Init /\ [][Next]_vars

\* ---- cloud component ----

\* __init__.py 146: the except clause of Cloud.connect
SwallowedNever(exc) == FALSE
Swallowed(exc) == exc \in ConnectErrors

\* __init__.py 139-148: what Cloud.connect gives its caller
ConnectReturn(o) ==
    IF o.exc \in {"none", "false"} \/ Swallowed(o.exc)
    THEN "returned" ELSE "raised"

\* __init__.py 140-145: `self.client = client` comes after subscribe()
ClientAfterConnectEarly(o, c) == IF o.at # "connect" THEN c ELSE NoClient
ClientAfterConnect(o, c) == IF o.at = "none" THEN c ELSE NoClient

\* __init__.py 128-148: Cloud.connect() with a new client from
\* _client_factory.  A client whose connect() succeeded holds a broker
\* connection until disconnect() is called on it.
ConnectEffect(o) ==
    LET c == nclients + 1 IN
    /\ client = NoClient                       \* the assert at line 128
    /\ nclients' = c
    /\ open' = IF o.at # "connect" THEN open \cup {c} ELSE open
    /\ subscribed' = IF o.at = "none" THEN subscribed \cup {c} ELSE subscribed
    /\ client' = ClientAfterConnect(o, c)
    /\ lastConnect' = o
    /\ connectReturn' = ConnectReturn(o)

msgVars == <<nmsgs, mname, mstate, jobs, handlerRuns, published, warnings>>
connVars == <<nclients, open, subscribed, client, lastConnect, connectReturn>>

\* __init__.py 104-120: initialize(); hasFile says whether the stored user
\* info exists.
Initialize(hasFile, e, t, o) ==
    /\ phase = "new"
    /\ phase' = "running"
    /\ IF hasFile
       THEN /\ email' = e
            /\ thing_name' = t
            /\ ConnectEffect(o)
       ELSE UNCHANGED <<email, thing_name, connVars>>
    /\ UNCHANGED <<msgVars, hueVars>>

\* auth_api.py 107-115: login() stores the account on the Cloud object.
Login(e, t) ==
    /\ phase = "running"
    /\ client = NoClient
    /\ email' = e
    /\ thing_name' = t
    /\ UNCHANGED <<phase, connVars, msgVars, hueVars>>

\* __init__.py 122-148: connect() called for a logged-in, unconnected cloud.
Connect(o) ==
    /\ phase = "running"
    /\ thing_name # NoValue
    /\ nclients < MaxClients
    /\ ConnectEffect(o)
    /\ UNCHANGED <<phase, email, thing_name, msgVars, hueVars>>

\* __init__.py 159-170
Logout ==
    /\ phase = "running"
    /\ client # NoClient
    /\ open' = open \ {client}
    /\ client' = NoClient
    /\ email' = NoValue
    /\ thing_name' = NoValue
    /\ UNCHANGED <<phase, nclients, subscribed, lastConnect, connectReturn,
                   msgVars, hueVars>>

\* __init__.py 172-175, registered with listen_once at line 111
HandleHassStop ==
    /\ phase = "running"
    /\ phase' = "stopped"
    /\ open' = IF client # NoClient THEN open \ {client} ELSE open
    /\ UNCHANGED <<client, email, thing_name, nclients, subscribed,
                   lastConnect, connectReturn, msgVars, hueVars>>

\* __init__.py 134: `msg.topic.split('/', 2)[2]`, the parts after the
\* second '/'
TopicHandler(topic) == SubSeq(topic, 3, Len(topic))

\* __init__.py 132-137: message_callback, run by a subscribed client that
\* holds a connection; queues async_handle_message.
MessageCallback(topic) ==
    /\ open \cap subscribed # {}
    /\ nmsgs < MaxMsgs
    /\ nmsgs' = nmsgs + 1
    /\ mname' = [mname EXCEPT ![nmsgs + 1] = TopicHandler(topic)]
    /\ mstate' = [mstate EXCEPT ![nmsgs + 1] = "queued"]
    /\ jobs' = Append(jobs, nmsgs + 1)
    /\ UNCHANGED <<phase, email, thing_name, connVars, handlerRuns,
                   published, warnings, hueVars>>

\* iot.py 10, 26: the handler names registered in HANDLERS
HANDLERS == {<<"alexa">>}

\* iot.py 17: HANDLERS.get(handler_name)
RegistryGet(registry, name) == IF name \in registry THEN name ELSE <<>>

\* iot.py 14-33: async_handle_message and, for 'alexa', async_handle_alexa
\* up to the publish job it hands to the executor.
AsyncHandleMessage ==
    /\ jobs # <<>>
    /\ LET m == Head(jobs)
           handler == RegistryGet(HANDLERS, mname[m])
       IN IF handler = <<>>
          THEN /\ warnings' = warnings + 1
               /\ mstate' = [mstate EXCEPT ![m] = "dropped"]
               /\ UNCHANGED handlerRuns
          ELSE /\ handlerRuns' = [handlerRuns EXCEPT ![m] = @ + 1]
               /\ mstate' = [mstate EXCEPT ![m] = "publishing"]
               /\ UNCHANGED warnings
    /\ jobs' = Tail(jobs)
    /\ UNCHANGED <<phase, email, thing_name, connVars, nmsgs, mname,
                   published, hueVars>>

\* iot.py 34 / __init__.py 153: the topic of the response to message m
PublishTopic(thing, m) == <<thing, "alexa", m>>

\* __init__.py 150-153: cloud.publish run by the executor.  With
\* `self.client` None the attribute access raises; a client that was
\* disconnected sends nothing.
Publish(m) ==
    /\ mstate[m] = "publishing"
    /\ IF client = NoClient
       THEN /\ mstate' = [mstate EXCEPT ![m] = "raised"]
            /\ UNCHANGED published
       ELSE IF client \in open
       THEN /\ mstate' = [mstate EXCEPT ![m] = "done"]
            /\ published' = Append(published, PublishTopic(thing_name, m))
       ELSE /\ mstate' = [mstate EXCEPT ![m] = "offline"]
            /\ UNCHANGED published
    /\ UNCHANGED <<phase, email, thing_name, connVars, nmsgs, mname, jobs,
                   handlerRuns, warnings, hueVars>>

CloudNext ==
    \/ \E hasFile \in BOOLEAN, e \in Emails, t \in Things,
          o \in ConnectOutcomes : Initialize(hasFile, e, t, o)
    \/ \E e \in Emails, t \in Things : Login(e, t)
    \/ \E o \in ConnectOutcomes : Connect(o)
    \/ Logout
    \/ HandleHassStop
    \/ \E topic \in Topics : MessageCallback(topic)
    \/ AsyncHandleMessage
    \/ \E m \in Msgs : Publish(m)

CloudSpec == Init /\ [][CloudNext]_vars

\* The event loop runs every ready handle, in order.
LoopStep ==
    \/ \E id \in Ids : RequestUpdate(id)
    \/ \E id \in Ids : RequestUpdateResume(id)
    \/ \E f \in Fetches : UpdateBridge(f)
    \/ \E f \in Fetches : OnCompletion(f)
    \/ \E f \in Fetches : UpdateBridgeResume(f)
    \/ \E f \in Fetches : AsyncUpdateItems(f)
    \/ \E f \in Fetches, snap \in Snapshots : AsyncUpdateItemsResume(f, snap)

\* api.update() runs under async_timeout.timeout(4) (line 130): it ends.
FetchEnds == \E f \in Fetches, o \in Outcomes : ApiRespond(f, o)

FairSpec == Init /\ [][Next]_vars /\ WF_vars(LoopStep) /\ WF_vars(FetchEnds)

\* ---- properties ----

Outstanding == {f \in Fetches : fstate[f] \in {"fetching", "answered"}}
Resolving(f) == Head1("items_resume", f) /\ fstate'[f] = "resolved"

\* C1: at most one api.update() is outstanding in every reachable state; while
\* the initial fetch (fetch 1, made without setting `progress`) is
\* outstanding no request_update call exists that could start a second one.
C1_AtMostOneOutstanding ==
    /\ Cardinality(Outstanding) <= 1
    /\ 1 \in Outstanding =>
          /\ progress = None
          /\ \A i \in Ids : pc[i] = "idle"

\* the case of C1: a fetch started by request_update is outstanding with the
\* initiator and a joiner both suspended on it
C1_Witness ==
    \E f \in Fetches \ {1}, i, j \in Ids :
        /\ i # j
        /\ fstate[f] = "fetching"
        /\ pc[i] = "initiated" /\ pc[j] = "joined"
        /\ awaiting[i] = f /\ awaiting[j] = f

\* C2: callers that arrive while a fetch is still unresolved join that fetch
\* instead of starting another; api.update() is invoked exactly once per
\* fetch; no caller returns before the task of its fetch is done, and every
\* caller returns what that task resolved to.
C2_SingleFlight ==
    /\ \A i \in Ids : pc[i] # "idle" /\ seen[i] # None => awaiting[i] = seen[i]
    /\ \A f \in Fetches :
          /\ apiCalls[f] <= 1
          /\ fstate[f] \notin {"none", "task", "items"} => apiCalls[f] = 1
    /\ \A i \in Ids : pc[i] = "returned" =>
          /\ fstate[awaiting[i]] = "done"
          /\ result[i] = taskResult[awaiting[i]]

\* the case of C2: two callers have returned from the same fetch, one of
\* them having joined it while it was unresolved
C2_Witness ==
    \E i, j \in Ids :
        /\ i # j
        /\ pc[i] = "returned" /\ pc[j] = "returned"
        /\ awaiting[i] = awaiting[j] /\ seen[j] = awaiting[i]
        /\ apiCalls[awaiting[i]] = 1
        /\ result[i] = result[j]

\* C3: whenever a caller that was suspended on a fetch resumes and returns,
\* `progress` is None and the waiter set is empty in the state it returns
\* into.
C3_ClearedBeforeRelease ==
    [][\A i \in Ids :
          pc[i] \in {"initiated", "joined"} /\ pc'[i] = "returned" =>
              /\ progress' = None
              /\ progress' # awaiting[i]
              /\ sensor_progress' = {}]_vars

\* the case of C3: the initiator has returned and cleared the state, a
\* joiner of the same fetch is about to resume
C3_Witness ==
    \E i, j \in Ids :
        /\ pc[i] = "returned" /\ pc[j] = "joined"
        /\ awaiting[i] = awaiting[j]
        /\ Head1("wake", j)
        /\ progress = None /\ sensor_progress = {}

\* C4 (as claimed): a request_update call that runs when the task of every
\* fetch started so far has completed starts a new fetch.
C4_FreshAfterResolved ==
    [][\A i \in Ids :
          /\ Head1("call", i) /\ pc'[i] # pc[i]
          /\ \A f \in Fetches : fstate[f] \in {"none", "done"}
          => nfetch' = nfetch + 1]_vars

\* C5 (as claimed): when a fetch resolves successfully every entity of
\* `current` that is not in the waiter set gets exactly one notification for
\* that fetch.
C5_BroadcastOnSuccess ==
    [][\A f \in Fetches :
          Resolving(f) /\ outcome[f] = "ok" =>
              \A i \in current \ sensor_progress : notified'[i] = 1]_vars

\* C6 (as claimed): when a fetch fails while the bridge is available, every
\* entity of `current` is notified, the waiters included.
C6_FailureNotifiesAll ==
    [][\A f \in Fetches :
          Resolving(f) /\ Caught(outcome[f]) /\ available =>
              \A i \in current : notified'[i] >= 1]_vars

\* C6 (amended): when a fetch fails while the bridge is available, every
\* entity of `current` whose identifier is not in the waiter set gets exactly
\* one notification for that fetch.
C6_FailureNotifiesNonWaiting ==
    [][\A f \in Fetches :
          Resolving(f) /\ Caught(outcome[f]) /\ available =>
              \A i \in current \ sensor_progress : notified'[i] = 1]_vars

\* the case of C6: a first failure has been processed with one entity
\* waiting on the fetch and another one not
C6_Witness ==
    \E f \in Fetches, i, j \in Ids :
        /\ fstate[f] = "resolved" /\ Caught(outcome[f])
        /\ errorLogs >= 1 /\ ~available
        /\ i \in current /\ i \notin sensor_progress /\ notified[i] = 1
        /\ j \in sensor_progress /\ awaiting[j] = f /\ notified[j] = 0

\* C7: a caught failure while available clears the flag with one error log;
\* a success while unavailable sets it with one recovery log; a failure while
\* unavailable and a success while available change neither flag nor logs;
\* and in every step the number of logs grows by one exactly when the flag
\* changes.
C7_AvailabilityTransitions ==
    [][/\ \A f \in Fetches : Resolving(f) =>
            /\ Caught(outcome[f]) /\ available =>
                  ~available' /\ errorLogs' = errorLogs + 1
                              /\ infoLogs' = infoLogs
            /\ outcome[f] = "ok" /\ ~available =>
                  available' /\ infoLogs' = infoLogs + 1
                             /\ errorLogs' = errorLogs
            /\ Caught(outcome[f]) /\ ~available =>
                  UNCHANGED <<available, errorLogs, infoLogs>>
            /\ outcome[f] = "ok" /\ available =>
                  UNCHANGED <<available, errorLogs, infoLogs>>
       /\ errorLogs' + infoLogs' =
             errorLogs + infoLogs + (IF available' # available THEN 1 ELSE 0)
      ]_vars

\* the case of C7: the bridge went down, came back, and a failure has been
\* processed while it was already down or a success while it was up
C7_Witness ==
    /\ errorLogs >= 1 /\ infoLogs >= 1
    /\ \E f \in Fetches : fstate[f] = "done" /\ Caught(outcome[f])
    /\ \E f \in Fetches : fstate[f] = "done" /\ outcome[f] = "ok"

Quiescent == ready = <<>> /\ \A f \in Fetches : fstate[f] \in {"none", "done"}

\* C8: a request_update call whose fetch succeeded, timed out or raised a
\* transport error returns normally (None), and once every task has run to
\* its end the marker is None and the waiter set empty, so that the next
\* call starts a new fetch.
C8_NoErrorSurfaces ==
    /\ \A i \in Ids :
          pc[i] = "returned" /\ outcome[awaiting[i]] \in {"ok", "timeout", "aiohue"}
              => result[i] = "None"
    /\ Quiescent => progress = None /\ sensor_progress = {}

\* the case of C8: callers have returned from a fetch that timed out and
\* from one that raised a transport error, and the loop is idle
C8_Witness ==
    /\ Quiescent
    /\ \E i, j \in Ids :
          /\ pc[i] = "returned" /\ outcome[awaiting[i]] = "timeout"
          /\ pc[j] = "returned" /\ outcome[awaiting[j]] = "aiohue"

\* C9 (as claimed): a caller whose fetch raised an exception that is neither
\* a timeout nor an AiohueException gets that exception from request_update.
C9_OtherExceptionPropagates ==
    \A i \in Ids :
        pc[i] = "returned" /\ outcome[awaiting[i]] = "other"
            => result[i] = "raised"

\* C10: a fetch is started only by a request_update step that finds
\* `progress` None, and api.update() is invoked only by the first step of
\* async_update_items, once per fetch: nothing re-issues a fetch after a
\* failure.
C10_NoRetry ==
    [][/\ nfetch' # nfetch =>
            /\ nfetch' = nfetch + 1
            /\ progress = None
            /\ \E i \in Ids : Head1("call", i) /\ pc'[i] = "initiated"
       /\ \A f \in Fetches : apiCalls'[f] # apiCalls[f] =>
            /\ Head1("items", f)
            /\ apiCalls[f] = 0 /\ apiCalls'[f] = 1
      ]_vars

\* the case of C10: a fetch started by request_update failed, all its tasks
\* have ended, and no other fetch has been issued
C10_Witness ==
    \E f \in Fetches \ {1} :
        /\ Caught(outcome[f]) /\ fstate[f] = "done"
        /\ nfetch = f /\ apiCalls[f] = 1
        /\ Quiescent /\ progress = None

\* C11: create_binary_sensor is invoked at most once per identifier, exactly
\* for the identifiers of `current`; an identifier never leaves `current`;
\* the identifiers handed to async_add_devices by a run are exactly those
\* that enter `current` in it, and none of them is notified by that run.
C11_CreatedOnce ==
    /\ [](\A i \in Ids : /\ created[i] <= 1
                         /\ (i \in current <=> created[i] = 1))
    /\ [][/\ current \subseteq current'
          /\ \A f \in Fetches : Resolving(f) =>
                /\ added' = current' \ current
                /\ \A i \in added' : notified'[i] = 0 /\ created'[i] = 1
                /\ outcome[f] # "ok" => added' = {}
         ]_vars

\* the case of C11: an entity created by an earlier fetch is still there
\* after a later successful fetch that created another one
C11_Witness ==
    \E f \in Fetches \ {1}, i, j \in Ids :
        /\ fstate[f] = "resolved" /\ outcome[f] = "ok"
        /\ i \in current \ added /\ created[i] = 1
        /\ j \in added /\ created[j] = 1

\* C12: with the loop running its ready handles and api.update() bounded by
\* its timeout, every fetch that was sent ends and its task completes, every
\* caller suspended in request_update returns, and the in-flight marker
\* returns to None.
C12_EveryCallerReturns ==
    /\ \A f \in Fetches : (fstate[f] = "fetching") ~> (fstate[f] = "done")
    /\ \A i \in Ids : (pc[i] \in {"initiated", "joined"}) ~> (pc[i] = "returned")
    /\ (progress # None) ~> (progress = None)

\* the case of C12: the initiator and a joiner are suspended on a fetch whose
\* api.update() has timed out
C12_Witness ==
    \E f \in Fetches, i, j \in Ids :
        /\ fstate[f] = "answered" /\ outcome[f] = "timeout"
        /\ pc[i] = "initiated" /\ pc[j] = "joined"
        /\ awaiting[i] = f /\ awaiting[j] = f /\ progress = f

\* the callers suspended on the task `progress` refers to
SuspendedOn(p) ==
    {i \in Ids : pc[i] \in {"initiated", "joined"} /\ awaiting[i] = p}

\* C13: between any two steps of the loop the waiter set is empty when
\* `progress` is None, and when a request is in flight it contains the
\* identifier of every caller suspended on that request.
C13_WaiterSetTracksCallers ==
    /\ progress = None => sensor_progress = {}
    /\ progress # None => SuspendedOn(progress) \subseteq sensor_progress

\* the case of C13: two callers are suspended on the request in flight and
\* both are in the waiter set, its task not yet completed
C13_Witness ==
    /\ progress # None
    /\ fstate[progress] = "completing"
    /\ Cardinality(SuspendedOn(progress)) = 2
    /\ SuspendedOn(progress) = sensor_progress

\* the fetch whose run of async_update_items `notified` and `added` describe
Resolved == {f \in Fetches : fstate[f] \in {"resolved", "completing", "done"}}
LatestResolved ==
    IF Resolved = {} THEN None
    ELSE CHOOSE f \in Resolved : \A g \in Resolved : g <= f

C15_FailureFrame ==
    [][\A f \in Fetches : Resolving(f) /\ outcome[f] # "ok" =>
          /\ current' = current
          /\ created' = created
          /\ added' = {}
          /\ Caught(outcome[f]) /\ ~available =>
                /\ ~available'
                /\ errorLogs' = errorLogs /\ infoLogs' = infoLogs
                /\ \A i \in Ids : notified'[i] = 0]_vars

\* the case of C15: a second failure in a row has been processed while
\* entities exist, one of them outside the waiter set
C15_Witness ==
    \E f \in Fetches \ {1} :
        /\ fstate[f] = "resolved" /\ Caught(outcome[f])
        /\ Caught(outcome[f - 1])
        /\ ~available /\ errorLogs = 1
        /\ current \ sensor_progress # {}
        /\ \A i \in Ids : notified[i] = 0

\* ---- cloud component: properties ----

\* A step in which Cloud.connect() ran (it made a new client).
ConnectRan == nclients' = nclients + 1

\* C16: Cloud.connect() sets `client` only when both the broker connect and
\* the subscribe succeeded.  When the broker connect returns False, or
\* connect/subscribe raises OSError, operationError or
\* operationTimeoutException, connect() returns without an error, `client`
\* stays None, and email and thing_name keep the values they had when
\* connect() was entered.
C16_ClientOnlyAfterSubscribe ==
    [][ConnectRan =>
         /\ client' # NoClient =>
               /\ client' = nclients'
               /\ lastConnect'.at = "none"
               /\ client' \in open' \cap subscribed'
         /\ lastConnect'.at # "none" =>
               /\ connectReturn' = "returned"
               /\ client' = NoClient
               /\ thing_name' # NoValue /\ email' # NoValue
               /\ phase = "running" =>
                     email' = email /\ thing_name' = thing_name
      ]_vars

\* A second or later connect() failed at the subscribe step, after its
\* broker connect succeeded: the Cloud object is left unconnected.
C16_Witness ==
    /\ nclients >= 2
    /\ lastConnect.at = "subscribe"
    /\ connectReturn = "returned"
    /\ client = NoClient
    /\ thing_name # NoValue
    /\ nclients \in open

\* A step in which Cloud.logout() ran.
LogoutRan == client # NoClient /\ client' = NoClient

\* C17: over connect (called while unconnected), logout (called while
\* connected) and the stop handler, at most one client holds a broker
\* connection at any time, and every client whose broker connect succeeded
\* is disconnected by a later logout or stop, so that none holds a
\* connection once the stop handler has run.
C17_OneConnection ==
    /\ Cardinality(open) <= 1
    /\ phase = "stopped" => open = {}

\* The last part of C17, which the code keeps: logout() disconnects the
\* current client and leaves client, email and thing_name all None.
C17_LogoutClears ==
    [][LogoutRan => /\ email' = NoValue /\ thing_name' = NoValue
                    /\ client \notin open']_vars

\* C18: each incoming message goes to at most one handler chosen by its
\* handler name: an unregistered name is dropped with a warning, no handler
\* run and nothing published; for 'alexa' the handler runs exactly once and,
\* once its publish job has run, exactly one response carrying the request's
\* message id has been published.
C18_DispatchAndPublish ==
    /\ \A m \in Msgs :
          /\ handlerRuns[m] <= 1
          /\ mstate[m] = "dropped" =>
                /\ mname[m] \notin HANDLERS
                /\ handlerRuns[m] = 0
                /\ \A k \in 1..Len(published) : published[k][3] # m
          /\ (mname[m] = <<"alexa">>
               /\ mstate[m] \notin {"none", "queued", "publishing"}) =>
                /\ handlerRuns[m] = 1
                /\ Cardinality({k \in 1..Len(published) :
                                   published[k][3] = m}) = 1
    /\ warnings = Cardinality({m \in Msgs : mstate[m] = "dropped"})
====
